---- MODULE Spec2Model ----
(***************************************************************************)
(* The rating engine of wta_elo (src/src/model.py) and the train/evaluate  *)
(* driver that calls it (src/src/pipeline.py).                             *)
(*                                                                         *)
(* Numbers.  The source computes in floating point; here every quantity is *)
(* a fixed-point integer:                                                  *)
(*   abilities                 whole rating points      (1500 = 1500.0)    *)
(*   probabilities, weights,                                               *)
(*   performances and trend    thousandths              (500 = 0.5)        *)
(*   K-factors                 thousandths of a point   (269950 = 269.95)  *)
(* Quotients round towards minus infinity.  The three transcendental       *)
(* functions of the source (10^x in get_probs, x^shape in get_k_factor,    *)
(* binom.cdf in get_performance_score) are tabulated from their formulas.  *)
(*                                                                         *)
(* Arrays are objects on a heap and the variables that name them hold      *)
(* references, so that aliasing and copying are visible.                   *)
(***************************************************************************)
EXTENDS Integers, Sequences, FiniteSets, TLC

\* ------------------------------------------------------------- bounds
\* number of rows of the state arrays (len(player_map))
NumPlayers == 3
\* longest match list given to the engine
MaxMatches == 2
\* match dates are 1..MaxDate
MaxDate == 2
\* longest series of surface labels given to surface_to_one_hot
MaxLabels == 3
\* most pieces (sets, RET) of a score given to score_to_int
MaxSets == 3
\* most rows of the data given to get_inferred_date
MaxRows == 3

\* ------------------------------------------------ program constants
\* canonical surface categories: Hard, Clay, Grass
NumSurfaces == 3
\* SURFACE_MAP: Carpet to be treated as grass
SURFACE_MAP ==
  [Hard |-> "Hard", Clay |-> "Clay", Grass |-> "Grass", Carpet |-> "Grass"]
\* ROUND_ORDER: the round hierarchy, earlier to later
ROUND_ORDER ==
  <<"Q1", "Q2", "Q3", "RR", "R128", "R64", "R32", "R16", "QF", "SF", "BR", "F">>
\* the model parameters: K in thousandths of a rating point, trend_weight in
\* ten-thousandths, shape as the table PowShape, the others in thousandths
PARAMS ==
  [K |-> 269950, offset |-> 1, surface_weight |-> 121, itf_deduction |-> 339,
   p |-> 530, straight_sets_boost |-> 72, trend_rate |-> 285,
   trend_weight |-> 736, all_time_weight |-> 598]
\* initial value of player_abilities and alltime_abilities
InitialAbility == 1500

Players == 0 .. (NumPlayers - 1)
Surfaces == 1 .. NumSurfaces
\* the columns of the two-dimensional state arrays: the surfaces, then base
Base == NumSurfaces + 1
Columns == 1 .. Base
Dates == 1 .. MaxDate

\* ------------------------------------------------------------ helpers
RECURSIVE SumTo(_, _)
SumTo(f, n) == IF n = 0 THEN 0 ELSE f[n] + SumTo(f, n - 1)

Max(a, b) == IF a >= b THEN a ELSE b

Range(s) == {s[i] : i \in DOMAIN s}

\* the largest and the smallest element of a non-empty set of integers
MaxOf(S) == CHOOSE x \in S : \A y \in S : y <= x
MinOf(S) == CHOOSE x \in S : \A y \in S : x <= y

\* ------------------------------------------------- tabulated functions
\* round(1000 * (1 - 1/(1 + 10^(d/400)))) for d = -600 .. 600
ProbTable ==
  << 
     31, 31, 31, 31, 31, 32, 32, 32, 32, 32, 32, 33, 33, 33, 33, 33, 34, 34, 34, 34,
     34, 34, 35, 35, 35, 35, 35, 36, 36, 36, 36, 36, 37, 37, 37, 37, 37, 38, 38, 38,
     38, 38, 39, 39, 39, 39, 40, 40, 40, 40, 40, 41, 41, 41, 41, 42, 42, 42, 42, 43,
     43, 43, 43, 43, 44, 44, 44, 44, 45, 45, 45, 45, 46, 46, 46, 46, 47, 47, 47, 47,
     48, 48, 48, 49, 49, 49, 49, 50, 50, 50, 50, 51, 51, 51, 52, 52, 52, 52, 53, 53,
     53, 54, 54, 54, 54, 55, 55, 55, 56, 56, 56, 57, 57, 57, 57, 58, 58, 58, 59, 59,
     59, 60, 60, 60, 61, 61, 61, 62, 62, 62, 63, 63, 63, 64, 64, 64, 65, 65, 65, 66,
     66, 66, 67, 67, 68, 68, 68, 69, 69, 69, 70, 70, 71, 71, 71, 72, 72, 72, 73, 73,
     74, 74, 74, 75, 75, 76, 76, 76, 77, 77, 78, 78, 78, 79, 79, 80, 80, 81, 81, 81,
     82, 82, 83, 83, 84, 84, 84, 85, 85, 86, 86, 87, 87, 88, 88, 89, 89, 89, 90, 90,
     91, 91, 92, 92, 93, 93, 94, 94, 95, 95, 96, 96, 97, 97, 98, 98, 99, 99, 100, 100,
     101, 101, 102, 102, 103, 104, 104, 105, 105, 106, 106, 107, 107, 108, 108, 109, 110, 110, 111, 111,
     112, 112, 113, 114, 114, 115, 115, 116, 116, 117, 118, 118, 119, 119, 120, 121, 121, 122, 123, 123,
     124, 124, 125, 126, 126, 127, 128, 128, 129, 129, 130, 131, 131, 132, 133, 133, 134, 135, 135, 136,
     137, 137, 138, 139, 140, 140, 141, 142, 142, 143, 144, 144, 145, 146, 147, 147, 148, 149, 150, 150,
     151, 152, 152, 153, 154, 155, 155, 156, 157, 158, 159, 159, 160, 161, 162, 162, 163, 164, 165, 166,
     166, 167, 168, 169, 170, 170, 171, 172, 173, 174, 174, 175, 176, 177, 178, 179, 180, 180, 181, 182,
     183, 184, 185, 186, 186, 187, 188, 189, 190, 191, 192, 193, 193, 194, 195, 196, 197, 198, 199, 200,
     201, 202, 203, 204, 204, 205, 206, 207, 208, 209, 210, 211, 212, 213, 214, 215, 216, 217, 218, 219,
     220, 221, 222, 223, 224, 225, 226, 227, 228, 229, 230, 231, 232, 233, 234, 235, 236, 237, 238, 239,
     240, 241, 242, 243, 244, 246, 247, 248, 249, 250, 251, 252, 253, 254, 255, 256, 257, 259, 260, 261,
     262, 263, 264, 265, 266, 267, 269, 270, 271, 272, 273, 274, 275, 277, 278, 279, 280, 281, 282, 284,
     285, 286, 287, 288, 289, 291, 292, 293, 294, 295, 297, 298, 299, 300, 301, 303, 304, 305, 306, 308,
     309, 310, 311, 312, 314, 315, 316, 317, 319, 320, 321, 322, 324, 325, 326, 327, 329, 330, 331, 333,
     334, 335, 336, 338, 339, 340, 342, 343, 344, 345, 347, 348, 349, 351, 352, 353, 355, 356, 357, 359,
     360, 361, 363, 364, 365, 367, 368, 369, 371, 372, 373, 375, 376, 377, 379, 380, 381, 383, 384, 385,
     387, 388, 390, 391, 392, 394, 395, 396, 398, 399, 401, 402, 403, 405, 406, 408, 409, 410, 412, 413,
     415, 416, 417, 419, 420, 422, 423, 424, 426, 427, 429, 430, 431, 433, 434, 436, 437, 438, 440, 441,
     443, 444, 446, 447, 448, 450, 451, 453, 454, 456, 457, 458, 460, 461, 463, 464, 466, 467, 468, 470,
     471, 473, 474, 476, 477, 478, 480, 481, 483, 484, 486, 487, 488, 490, 491, 493, 494, 496, 497, 499,
     500, 501, 503, 504, 506, 507, 509, 510, 512, 513, 514, 516, 517, 519, 520, 522, 523, 524, 526, 527,
     529, 530, 532, 533, 534, 536, 537, 539, 540, 542, 543, 544, 546, 547, 549, 550, 552, 553, 554, 556,
     557, 559, 560, 562, 563, 564, 566, 567, 569, 570, 571, 573, 574, 576, 577, 578, 580, 581, 583, 584,
     585, 587, 588, 590, 591, 592, 594, 595, 597, 598, 599, 601, 602, 604, 605, 606, 608, 609, 610, 612,
     613, 615, 616, 617, 619, 620, 621, 623, 624, 625, 627, 628, 629, 631, 632, 633, 635, 636, 637, 639,
     640, 641, 643, 644, 645, 647, 648, 649, 651, 652, 653, 655, 656, 657, 658, 660, 661, 662, 664, 665,
     666, 667, 669, 670, 671, 673, 674, 675, 676, 678, 679, 680, 681, 683, 684, 685, 686, 688, 689, 690,
     691, 692, 694, 695, 696, 697, 699, 700, 701, 702, 703, 705, 706, 707, 708, 709, 711, 712, 713, 714,
     715, 716, 718, 719, 720, 721, 722, 723, 725, 726, 727, 728, 729, 730, 731, 733, 734, 735, 736, 737,
     738, 739, 740, 741, 743, 744, 745, 746, 747, 748, 749, 750, 751, 752, 753, 754, 756, 757, 758, 759,
     760, 761, 762, 763, 764, 765, 766, 767, 768, 769, 770, 771, 772, 773, 774, 775, 776, 777, 778, 779,
     780, 781, 782, 783, 784, 785, 786, 787, 788, 789, 790, 791, 792, 793, 794, 795, 796, 796, 797, 798,
     799, 800, 801, 802, 803, 804, 805, 806, 807, 807, 808, 809, 810, 811, 812, 813, 814, 814, 815, 816,
     817, 818, 819, 820, 820, 821, 822, 823, 824, 825, 826, 826, 827, 828, 829, 830, 830, 831, 832, 833,
     834, 834, 835, 836, 837, 838, 838, 839, 840, 841, 841, 842, 843, 844, 845, 845, 846, 847, 848, 848,
     849, 850, 850, 851, 852, 853, 853, 854, 855, 856, 856, 857, 858, 858, 859, 860, 860, 861, 862, 863,
     863, 864, 865, 865, 866, 867, 867, 868, 869, 869, 870, 871, 871, 872, 872, 873, 874, 874, 875, 876,
     876, 877, 877, 878, 879, 879, 880, 881, 881, 882, 882, 883, 884, 884, 885, 885, 886, 886, 887, 888,
     888, 889, 889, 890, 890, 891, 892, 892, 893, 893, 894, 894, 895, 895, 896, 896, 897, 898, 898, 899,
     899, 900, 900, 901, 901, 902, 902, 903, 903, 904, 904, 905, 905, 906, 906, 907, 907, 908, 908, 909,
     909, 910, 910, 911, 911, 911, 912, 912, 913, 913, 914, 914, 915, 915, 916, 916, 916, 917, 917, 918,
     918, 919, 919, 919, 920, 920, 921, 921, 922, 922, 922, 923, 923, 924, 924, 924, 925, 925, 926, 926,
     926, 927, 927, 928, 928, 928, 929, 929, 929, 930, 930, 931, 931, 931, 932, 932, 932, 933, 933, 934,
     934, 934, 935, 935, 935, 936, 936, 936, 937, 937, 937, 938, 938, 938, 939, 939, 939, 940, 940, 940,
     941, 941, 941, 942, 942, 942, 943, 943, 943, 943, 944, 944, 944, 945, 945, 945, 946, 946, 946, 946,
     947, 947, 947, 948, 948, 948, 948, 949, 949, 949, 950, 950, 950, 950, 951, 951, 951, 951, 952, 952,
     952, 953, 953, 953, 953, 954, 954, 954, 954, 955, 955, 955, 955, 956, 956, 956, 956, 957, 957, 957,
     957, 957, 958, 958, 958, 958, 959, 959, 959, 959, 960, 960, 960, 960, 960, 961, 961, 961, 961, 962,
     962, 962, 962, 962, 963, 963, 963, 963, 963, 964, 964, 964, 964, 964, 965, 965, 965, 965, 965, 966,
     966, 966, 966, 966, 966, 967, 967, 967, 967, 967, 968, 968, 968, 968, 968, 968, 969, 969, 969, 969,
     969
  >>

\* round(1000 * x^0.261) for x = 1 .. 12 (np.power(games_played + offset, shape))
PowShape == <<1000, 1198, 1332, 1436, 1522, 1596, 1662, 1721, 1774, 1824, 1870, 1913>>

\* round(1000 * binom.cdf(g_won, n, p)): at p = 0.53 for the scores of Scores,
\* and for the two scores of test_get_performance_score (12-10 at p = 0.5,
\* 12-2 at p = 0.55)
binom_cdf(g_won, n, p) ==
  CASE g_won = 12 /\ n = 16 /\ p = 530 -> 981
    [] g_won = 13 /\ n = 23 /\ p = 530 -> 706
    [] g_won = 12 /\ n = 22 /\ p = 500 -> 738
    [] g_won = 12 /\ n = 14 /\ p = 550 -> 997

\* -------------------------------------------------------------- inputs
\* the results a match can have: 6-2 6-2 and 6-4 1-6 6-0
Scores ==
  { [w_games |-> 12, w_sets |-> 2, l_games |-> 4, l_sets |-> 0],
    [w_games |-> 13, w_sets |-> 2, l_games |-> 10, l_sets |-> 1] }

\* one hot encodings with exactly one active surface
OneHots == { [c \in Surfaces |-> IF c = s THEN 1 ELSE 0] : s \in Surfaces }

\* a row of the match dataframe; itf is (source == 'I')
Rows ==
  { [date |-> d, w_id |-> w, l_id |-> l, one_hot |-> h, itf |-> i,
     w_games |-> sc.w_games, w_sets |-> sc.w_sets,
     l_games |-> sc.l_games, l_sets |-> sc.l_sets] :
      d \in Dates, w \in Players, l \in Players, h \in OneHots,
      i \in BOOLEAN, sc \in Scores }

\* a match is between two different players
Matches == { r \in Rows : r.w_id # r.l_id }

\* Nothing in the engine depends on the value of a player id or on the
\* position of a surface column, so the first row of a list is taken, without
\* loss of behaviours, as player 0 beating player 1 on the first surface.
FirstMatches == { r \in Matches : r.w_id = 0 /\ r.l_id = 1 /\ r.one_hot[1] = 1 }

\* the match lists of at most n rows, in any row order; the position of a row
\* is its index label (the dataframes are built with reset_index)
RECURSIVE ListsOf(_)
ListsOf(n) ==
  IF n = 0 THEN {<<>>}
  ELSE LET shorter == ListsOf(n - 1)
       IN  shorter \cup
           { Append(l, r) : l \in { x \in shorter : Len(x) = n - 1 },
                            r \in IF n = 1 THEN FirstMatches ELSE Matches }

\* ------------------------------------------------------ pure functions
\* the indicator taken as s_weight >= 0
get_surface_weights_nonneg(one_hot_surface, sw) ==
  LET s_weights == [c \in Surfaces |-> one_hot_surface[c] * sw]
      base_weight == 1000 - SumTo(s_weights, NumSurfaces)
      s_weight == [c \in Columns |-> IF c = Base THEN base_weight ELSE s_weights[c]]
  IN  [s_weight |-> s_weight,
       playing_surface |-> [c \in Columns |-> IF s_weight[c] >= 0 THEN 1 ELSE 0]]

\* get_surface_weights for one row: the weighted row and the 0/1 indicator
get_surface_weights(one_hot_surface, sw) ==
  LET s_weights == [c \in Surfaces |-> one_hot_surface[c] * sw]
      base_weight == 1000 - SumTo(s_weights, NumSurfaces)
      s_weight == [c \in Columns |-> IF c = Base THEN base_weight ELSE s_weights[c]]
  IN  [s_weight |-> s_weight,
       playing_surface |-> [c \in Columns |-> IF s_weight[c] > 0 THEN 1 ELSE 0]]

\* the base weight taken from the sum of the whole array, not of each row
get_surface_weights_2d_sum_all(one_hot_surface, sw) ==
  LET n == DOMAIN one_hot_surface
      s_weights == [i \in n |-> [c \in Surfaces |-> one_hot_surface[i][c] * sw]]
      total == SumTo([i \in n |-> SumTo(s_weights[i], NumSurfaces)], Len(one_hot_surface))
      base_weight == [i \in n |-> 1000 - total]
      s_weight == [i \in n |-> [c \in Columns |->
                     IF c = Base THEN base_weight[i] ELSE s_weights[i][c]]]
  IN  [s_weight |-> s_weight,
       playing_surface |-> [i \in n |-> [c \in Columns |->
                              IF s_weight[i][c] > 0 THEN 1 ELSE 0]]]

\* get_surface_weights for a batch of rows (the try branch): the product with
\* the weight, 1 - sum(axis=1) as a column, the two appended along axis 1
get_surface_weights_2d(one_hot_surface, sw) ==
  LET n == DOMAIN one_hot_surface
      s_weights == [i \in n |-> [c \in Surfaces |-> one_hot_surface[i][c] * sw]]
      base_weight == [i \in n |-> 1000 - SumTo(s_weights[i], NumSurfaces)]
      s_weight == [i \in n |-> [c \in Columns |->
                     IF c = Base THEN base_weight[i] ELSE s_weights[i][c]]]
  IN  [s_weight |-> s_weight,
       playing_surface |-> [i \in n |-> [c \in Columns |->
                              IF s_weight[i][c] > 0 THEN 1 ELSE 0]]]

\* get_current_ability for one player row
get_current_ability(c_ability, at_ability, s_weights, at_weight, c_trend, tw) ==
  LET cw == SumTo([c \in Columns |-> c_ability[c] * s_weights[c]], Base)
      aw == SumTo([c \in Columns |-> at_ability[c] * s_weights[c]], Base)
      c_ab == ((cw \div 10) * (1000 - at_weight) + (aw \div 10) * at_weight) \div 100000
  IN  c_ab + (c_ab * c_trend * tw) \div 10000000

\* get_probs: 1 - 1/(1 + 10^((a - b)/400)), read from the table; differences
\* beyond the table take its end values
get_probs(player_a, player_b) ==
  LET half == (Len(ProbTable) - 1) \div 2
      d == player_a - player_b
      dd == IF d > half THEN half ELSE IF d < -half THEN -half ELSE d
  IN  ProbTable[dd + half + 1]

\* the loser's performance less the winner's prior probability
get_performance_score_loser_probs(probs, g_won, g_lost, s_won, s_lost, p, s_boost) ==
  LET w_performance == binom_cdf(g_won, g_won + g_lost, p)
                         + (IF s_won - s_lost = 2 THEN 1 ELSE 0) * s_boost
      l_performance == 1000 - w_performance
  IN  [w |-> w_performance - probs, l |-> l_performance - probs]

\* get_performance_score: the signed performances of winner and loser
get_performance_score(probs, g_won, g_lost, s_won, s_lost, p, s_boost) ==
  LET w_performance == binom_cdf(g_won, g_won + g_lost, p)
                         + (IF s_won - s_lost = 2 THEN 1 ELSE 0) * s_boost
      l_performance == 1000 - w_performance
  IN  [w |-> w_performance - probs, l |-> l_performance - (1000 - probs)]

\* the lower tier match given a bonus instead of a deduction
get_k_factor_itf_bonus(games, Kp, off, ift_indicator, itf_ded) ==
  (((Kp * 1000) \div PowShape[games + off])
     * (1000 + (IF ift_indicator THEN 1 ELSE 0) * itf_ded)) \div 1000

\* get_k_factor for one value of games_played
get_k_factor(games, Kp, off, ift_indicator, itf_ded) ==
  (((Kp * 1000) \div PowShape[games + off])
     * (1000 - (IF ift_indicator THEN 1 ELSE 0) * itf_ded)) \div 1000

\* get_ability_change for one player row
get_ability_change(k_factor, p_score, playing_surface) ==
  [c \in Columns |-> (k_factor[c] * p_score * playing_surface[c]) \div 1000000]

\* get_updated_trend
get_updated_trend(c_trend, performance, update_rate) ==
  (c_trend * (1000 - update_rate) + performance * update_rate) \div 1000

\* ------------------------------------------------------- array writes
\* a[ids] = rows: row p of the result is rows[i] for an i with ids[i] = p.
\* numpy does not say which assignment remains when ids repeats a player;
\* last fixes it for a run (TRUE: the last one, FALSE: the first one).
Scatter(a, ids, rows, last) ==
  [p \in DOMAIN a |->
     LET at == {i \in DOMAIN ids : ids[i] = p}
     IN  IF at = {} THEN a[p]
         ELSE rows[IF last THEN MaxOf(at) ELSE MinOf(at)]]

RowAdd(x, y) == [c \in Columns |-> x[c] + y[c]]
RowMax(x, y) == [c \in Columns |-> Max(x[c], y[c])]

\* ----------------------------------------------------- elo_single_round
\* a[i] on an array of NumPlayers rows: an index from -NumPlayers to -1 counts
\* from the end, an index beyond either end raises IndexError
InBounds(i) == -NumPlayers <= i /\ i < NumPlayers
Wrap(i) == IF i < 0 THEN i + NumPlayers ELSE i

\* What elo_single_round computes for one row of its batch before it writes
\* anything (the vectorised computations are independent row by row).
match_locals(params, row, abs, games, trend, at) ==
  LET w_id == Wrap(row.w_id)
      l_id == Wrap(row.l_id)
      sw == get_surface_weights(row.one_hot, params.surface_weight)
      w_ability == get_current_ability(abs[w_id], at[w_id], sw.s_weight,
                     params.all_time_weight, trend[w_id], params.trend_weight)
      l_ability == get_current_ability(abs[l_id], at[l_id], sw.s_weight,
                     params.all_time_weight, trend[l_id], params.trend_weight)
      probs == get_probs(w_ability, l_ability)
      perf == get_performance_score(probs, row.w_games, row.l_games, row.w_sets,
                row.l_sets, params.p, params.straight_sets_boost)
  IN  [w_id |-> w_id, l_id |-> l_id,
       s_weights |-> sw.s_weight, playing_surface |-> sw.playing_surface,
       w_ability |-> w_ability, l_ability |-> l_ability, probs |-> probs,
       w_performance |-> perf.w, l_performance |-> perf.l,
       w_k_factor |-> [c \in Columns |->
          get_k_factor(games[w_id][c], params.K, params.offset, row.itf,
                       params.itf_deduction)],
       l_k_factor |-> [c \in Columns |->
          get_k_factor(games[l_id][c], params.K, params.offset, row.itf,
                       params.itf_deduction)]]

\* player_abs[w_id] += ..., then player_abs[l_id] += ...
write_abilities(loc, abs, last) ==
  LET n == DOMAIN loc
      w_id == [i \in n |-> loc[i].w_id]
      l_id == [i \in n |-> loc[i].l_id]
      abs1 == Scatter(abs, w_id, [i \in n |->
                RowAdd(abs[w_id[i]],
                       get_ability_change(loc[i].w_k_factor, loc[i].w_performance,
                                          loc[i].playing_surface))], last)
  IN  Scatter(abs1, l_id, [i \in n |->
        RowAdd(abs1[l_id[i]],
               get_ability_change(loc[i].l_k_factor, loc[i].l_performance,
                                  loc[i].playing_surface))], last)

\* the all time best of the winners alone
write_alltime_winners_only(loc, abs, at, last) ==
  LET n == DOMAIN loc
      w_id == [i \in n |-> loc[i].w_id]
  IN  Scatter(at, w_id, [i \in n |-> RowMax(abs[w_id[i]], at[w_id[i]])], last)

\* the all time best overwritten with the current ability, no maximum taken
write_alltime_overwrite(loc, abs, at, last) ==
  LET n == DOMAIN loc
      w_id == [i \in n |-> loc[i].w_id]
      l_id == [i \in n |-> loc[i].l_id]
      at1 == Scatter(at, w_id, [i \in n |-> abs[w_id[i]]], last)
  IN  Scatter(at1, l_id, [i \in n |-> abs[l_id[i]]], last)

\* at_abilities[w_id] = np.maximum(player_abs[w_id], at_abilities[w_id]), then
\* the same for l_id; abs is player_abs after its two writes
write_alltime(loc, abs, at, last) ==
  LET n == DOMAIN loc
      w_id == [i \in n |-> loc[i].w_id]
      l_id == [i \in n |-> loc[i].l_id]
      at1 == Scatter(at, w_id, [i \in n |-> RowMax(abs[w_id[i]], at[w_id[i]])], last)
  IN  Scatter(at1, l_id, [i \in n |-> RowMax(abs[l_id[i]], at1[l_id[i]])], last)

\* the trend fed with the performance before the prior probability is taken
\* off it
write_trend_raw(params, loc, trend, last) ==
  LET n == DOMAIN loc
      w_id == [i \in n |-> loc[i].w_id]
      l_id == [i \in n |-> loc[i].l_id]
      trend1 == Scatter(trend, w_id, [i \in n |->
                  get_updated_trend(trend[w_id[i]], loc[i].w_performance + loc[i].probs,
                                    params.trend_rate)], last)
  IN  Scatter(trend1, l_id, [i \in n |->
        get_updated_trend(trend1[l_id[i]],
                          loc[i].l_performance + (1000 - loc[i].probs),
                          params.trend_rate)], last)

\* player_trend[w_id] = get_updated_trend(...), then the same for l_id
write_trend(params, loc, trend, last) ==
  LET n == DOMAIN loc
      w_id == [i \in n |-> loc[i].w_id]
      l_id == [i \in n |-> loc[i].l_id]
      trend1 == Scatter(trend, w_id, [i \in n |->
                  get_updated_trend(trend[w_id[i]], loc[i].w_performance,
                                    params.trend_rate)], last)
  IN  Scatter(trend1, l_id, [i \in n |->
        get_updated_trend(trend1[l_id[i]], loc[i].l_performance,
                          params.trend_rate)], last)

\* the surfaces of the batch counted for every player of the array, not for
\* the rows w_id and l_id alone
write_games_every_player(loc, games, last) ==
  [q \in DOMAIN games |->
     RowAdd(games[q], loc[IF last THEN MaxOf(DOMAIN loc) ELSE MinOf(DOMAIN loc)]
                        .playing_surface)]

\* a match counted in every column: games_played[w_id] += 1, then l_id
write_games_every_column(loc, games, last) ==
  LET n == DOMAIN loc
      w_id == [i \in n |-> loc[i].w_id]
      l_id == [i \in n |-> loc[i].l_id]
      one == [c \in Columns |-> 1]
      games1 == Scatter(games, w_id, [i \in n |-> RowAdd(games[w_id[i]], one)], last)
  IN  Scatter(games1, l_id, [i \in n |-> RowAdd(games1[l_id[i]], one)], last)

\* games_played[w_id] += playing_surface, then the same for l_id
write_games(loc, games, last) ==
  LET n == DOMAIN loc
      w_id == [i \in n |-> loc[i].w_id]
      l_id == [i \in n |-> loc[i].l_id]
      games1 == Scatter(games, w_id, [i \in n |->
                  RowAdd(games[w_id[i]], loc[i].playing_surface)], last)
  IN  Scatter(games1, l_id, [i \in n |->
        RowAdd(games1[l_id[i]], loc[i].playing_surface)], last)

\* the arrays after the rows 1 .. i of d have been processed one at a time
RECURSIVE AfterRows(_, _, _, _, _, _, _)
AfterRows(params, d, i, abs, games, trend, at) ==
  IF i = 0 THEN [abs |-> abs, games |-> games, trend |-> trend, at |-> at]
  ELSE LET s == AfterRows(params, d, i - 1, abs, games, trend, at)
           loc == <<match_locals(params, d[i], s.abs, s.games, s.trend, s.at)>>
           abs2 == write_abilities(loc, s.abs, TRUE)
       IN  [abs |-> abs2, games |-> write_games(loc, s.games, TRUE),
            trend |-> write_trend(params, loc, s.trend, TRUE),
            at |-> write_alltime(loc, abs2, s.at, TRUE)]

\* the locals computed match after match, each from the arrays as the
\* matches before it in the batch have left them
round_locals_sequential(params, d, abs, games, trend, at) ==
  [i \in DOMAIN d |->
     LET s == AfterRows(params, d, i - 1, abs, games, trend, at)
     IN  match_locals(params, d[i], s.abs, s.games, s.trend, s.at)]

\* the locals of elo_single_round for its batch d (the rows of one date, in
\* row order), all computed from the arrays as they are at the call
round_locals(params, d, abs, games, trend, at) ==
  [i \in DOMAIN d |-> match_locals(params, d[i], abs, games, trend, at)]

\* One date batch: the locals, then the writes in place.  The result holds the
\* four arrays after the writes, the probabilities and the locals.  (loc and
\* abs2, the abilities after their two writes, are bound once and used as
\* values.)
elo_single_round(params, d, abs, games, trend, at, last) ==
  CHOOSE result \in
    UNION { { [player_abs |-> abs2,
               games_played |-> write_games(loc, games, last),
               player_trend |-> write_trend(params, loc, trend, last),
               at_abilities |-> write_alltime(loc, abs2, at, last),
               probs |-> [i \in DOMAIN d |-> loc[i].probs],
               loc |-> loc] :
                 abs2 \in {write_abilities(loc, abs, last)} } :
            loc \in {round_locals(params, d, abs, games, trend, at)} } : TRUE

\* ------------------------------------------------------------- the heap
\* no copy: the same object under the same reference
deepcopy_alias(h, ref) == [heap |-> h, ref |-> ref]

\* deepcopy: a new object with the content of the object at ref
deepcopy(h, ref) == [heap |-> Append(h, h[ref]), ref |-> Len(h) + 1]

\* one entry too many
np_empty_one_more(n) == [i \in 1 .. (n + 1) |-> -1]

\* np.empty((n,)): a vector of n entries not written yet (-1)
np_empty(n) == [i \in 1 .. n |-> -1]

RECURSIVE SortedSeq(_)
SortedSeq(S) == IF S = {} THEN <<>> ELSE <<MinOf(S)>> \o SortedSeq(S \ {MinOf(S)})

\* the entries of the sequence s without their repeats, in order of first
\* appearance (Series.unique)
RECURSIVE unique(_)
unique(s) ==
  IF s = <<>> THEN <<>>
  ELSE LET front == unique(SubSeq(s, 1, Len(s) - 1))
       IN  IF s[Len(s)] \in Range(front) THEN front ELSE Append(front, s[Len(s)])

\* the groups in the order in which their dates first appear in the rows
groupby_first_seen(d) ==
  LET dates == unique([i \in DOMAIN d |-> d[i].date])
  IN  [g \in DOMAIN dates |->
         [date |-> dates[g],
          index |-> SortedSeq({i \in DOMAIN d : d[i].date = dates[g]})]]

\* the groups with the latest date first
groupby_descending(d) ==
  LET dates == SortedSeq({d[i].date : i \in DOMAIN d})
      n == Len(dates)
  IN  [g \in DOMAIN dates |->
         [date |-> dates[n + 1 - g],
          index |-> SortedSeq({i \in DOMAIN d : d[i].date = dates[n + 1 - g]})]]

\* data.groupby(date_col): one group per distinct date, in ascending date
\* order; a group holds the positions of its rows, in row order
groupby(d) ==
  LET dates == SortedSeq({d[i].date : i \in DOMAIN d})
  IN  [g \in DOMAIN dates |->
         [date |-> dates[g],
          index |-> SortedSeq({i \in DOMAIN d : d[i].date = dates[g]})]]

\* the probabilities of a batch stored in batch order, in the first entries
\* not written yet
assign_probs_batch_order(overall, index, p, last) ==
  LET free == SortedSeq({i \in DOMAIN overall : overall[i] = -1})
  IN  Scatter(overall, [j \in DOMAIN p |-> free[j]], p, last)

\* overall_probs[date_df.index] = p
assign_probs(overall, index, p, last) == Scatter(overall, index, p, last)

\* ---------------------------------------------------------------- state
VARIABLES
  matches,        \* the cleaned match list of the caller
  last_wins,      \* which of two writes to one row remains (see Scatter)
  heap,           \* the arrays, by reference
  stage,          \* the caller's position: whole, split, train, test, variant, done
                  \* (pure: no run of elo, a function is called on its own)
  cut,            \* the caller's split position
  variant,        \* the caller's second match list and the date it agrees up to
  ret,            \* what each finished call of elo returned
  pc,             \* idle: no call of elo is active; loop: in elo's for loop;
                  \* raised: the call ended with an exception
  data,           \* elo's argument data
  args,           \* the four array references elo was called with
  player_abs, games_played, player_trend, at_abilities,   \* elo's locals
  groups,         \* the date groups elo has not processed yet
  overall_probs,  \* elo's result vector
  round,          \* the last call of elo_single_round: its date, rows and locals,
                  \* and how many calls the for loop has made so far
  before,         \* the four arrays as they were when that call began
  call            \* the last call of a function on its own: name, arguments, result

vars == <<matches, last_wins, heap, stage, cut, variant, ret, pc, data, args,
          player_abs, games_played, player_trend, at_abilities, groups,
          overall_probs, round, before, call>>

\* no function has been called on its own
NoCall == [fn |-> "none", in |-> <<>>, out |-> <<>>]

\* before the first call of elo_single_round
NoRound == [date |-> 0, index |-> <<>>, loc |-> <<>>, count |-> 0]

\* the arrays pipeline.run creates: abilities, games played, trend, all time
InitHeap ==
  << [p \in Players |-> [c \in Columns |-> InitialAbility]],
     [p \in Players |-> [c \in Columns |-> 0]],
     [p \in Players |-> 0],
     [p \in Players |-> [c \in Columns |-> InitialAbility]] >>

InitRefs == [player_abs |-> 1, games_played |-> 2, player_trend |-> 3, at_abilities |-> 4]

\* the four arrays the references of a name
Arrays(h, a) ==
  [player_abs |-> h[a.player_abs], games_played |-> h[a.games_played],
   player_trend |-> h[a.player_trend], at_abilities |-> h[a.at_abilities]]

Inputs == ListsOf(MaxMatches)

Init ==
  /\ matches \in Inputs
  /\ last_wins \in BOOLEAN
  /\ heap = InitHeap
  /\ stage = "whole"
  /\ cut = 0
  /\ variant = [d |-> 0, data |-> <<>>]
  /\ ret = <<>>
  /\ pc = "idle"
  /\ data = <<>>
  /\ args = InitRefs
  /\ player_abs = 0 /\ games_played = 0 /\ player_trend = 0 /\ at_abilities = 0
  /\ groups = <<>>
  /\ overall_probs = <<>>
  /\ round = NoRound
  /\ before = Arrays(InitHeap, InitRefs)
  /\ call = NoCall

\* ------------------------------------------------------------------ elo
\* elo starting every call from a trend of zero instead of the trend given
EloEnter_trend_reset(d, a) ==
  LET c1 == deepcopy(heap, a.player_abs)
      c2 == deepcopy(c1.heap, a.games_played)
      c3 == deepcopy(c2.heap, InitRefs.player_trend)
      c4 == deepcopy(c3.heap, a.at_abilities)
  IN  /\ heap' = c4.heap
      /\ player_abs' = c1.ref
      /\ games_played' = c2.ref
      /\ player_trend' = c3.ref
      /\ at_abilities' = c4.ref
      /\ data' = d
      /\ args' = a
      /\ overall_probs' = np_empty(Len(d))
      /\ groups' = groupby(d)
      /\ round' = NoRound
      /\ before' = Arrays(heap, a)
      /\ pc' = "loop"

\* elo up to its for loop: the four copies, the empty result vector, the groups
EloEnter(d, a) ==
  LET c1 == deepcopy(heap, a.player_abs)
      c2 == deepcopy(c1.heap, a.games_played)
      c3 == deepcopy(c2.heap, a.player_trend)
      c4 == deepcopy(c3.heap, a.at_abilities)
  IN  /\ heap' = c4.heap
      /\ player_abs' = c1.ref
      /\ games_played' = c2.ref
      /\ player_trend' = c3.ref
      /\ at_abilities' = c4.ref
      /\ data' = d
      /\ args' = a
      /\ overall_probs' = np_empty(Len(d))
      /\ groups' = groupby(d)
      /\ round' = NoRound
      /\ before' = Arrays(heap, a)
      /\ pc' = "loop"

\* one iteration of elo's for loop: elo_single_round on the next date group,
\* writing the arrays in place, then overall_probs[date_df.index] = p.  The
\* first read player_abs[w_id] (or [l_id]) raises IndexError on an index out
\* of bounds, before anything is written; nothing catches it.
EloBatch ==
  /\ pc = "loop"
  /\ groups # <<>>
  /\ LET g == Head(groups)
         date_df == [j \in DOMAIN g.index |-> data[g.index[j]]]
     IN  IF \A j \in DOMAIN date_df :
               InBounds(date_df[j].w_id) /\ InBounds(date_df[j].l_id)
         THEN /\ \E r \in {elo_single_round(PARAMS, date_df, heap[player_abs],
                                heap[games_played], heap[player_trend],
                                heap[at_abilities], last_wins)} :
                   /\ heap' = [heap EXCEPT ![player_abs] = r.player_abs,
                                           ![games_played] = r.games_played,
                                           ![player_trend] = r.player_trend,
                                           ![at_abilities] = r.at_abilities]
                   /\ overall_probs' = assign_probs(overall_probs, g.index, r.probs,
                                                    last_wins)
                   /\ round' = [date |-> g.date, index |-> g.index, loc |-> r.loc,
                                 count |-> round.count + 1]
              /\ before' = [player_abs |-> heap[player_abs],
                            games_played |-> heap[games_played],
                            player_trend |-> heap[player_trend],
                            at_abilities |-> heap[at_abilities]]
              /\ groups' = Tail(groups)
              /\ pc' = "loop"
         ELSE /\ pc' = "raised"
              /\ UNCHANGED <<heap, overall_probs, round, before, groups>>
  /\ UNCHANGED <<call, matches, last_wins, stage, cut, variant, ret, data, args,
                 player_abs, games_played, player_trend, at_abilities>>

NextStage(s) ==
  CASE s = "whole" -> "split"
    [] s = "train" -> "test"
    [] s = "test" -> "done"
    [] s = "variant" -> "done"

\* elo's return, and the caller keeping what it returned
EloReturn ==
  /\ pc = "loop"
  /\ groups = <<>>
  /\ ret' = ret @@ (stage :> [player_abs |-> player_abs, games_played |-> games_played,
                              player_trend |-> player_trend,
                              at_abilities |-> at_abilities,
                              overall_probs |-> overall_probs])
  /\ pc' = "idle"
  /\ stage' = NextStage(stage)
  /\ UNCHANGED <<call, matches, last_wins, heap, cut, variant, data, args, player_abs,
                 games_played, player_trend, at_abilities, groups, overall_probs,
                 round, before>>

\* ----------------------------------------------------------- the caller
IsSorted(d) == \A i, j \in DOMAIN d : i < j => d[i].date <= d[j].date

\* k splits d on a date boundary
DateBoundary(d, k) ==
  \A i, j \in DOMAIN d : (i <= k /\ j > k) => d[i].date < d[j].date

\* one run of elo over the whole list from the initial arrays
RunWhole ==
  /\ pc = "idle" /\ stage = "whole"
  /\ EloEnter(matches, InitRefs)
  /\ UNCHANGED <<call, matches, last_wins, stage, cut, variant, ret>>

\* the training run: elo over matches[0:k] from the initial arrays
RunTrain ==
  /\ pc = "idle" /\ stage = "split"
  /\ IsSorted(matches)
  /\ \E k \in 0 .. Len(matches) :
       /\ DateBoundary(matches, k)
       /\ cut' = k
       /\ EloEnter(SubSeq(matches, 1, k), InitRefs)
  /\ stage' = "train"
  /\ UNCHANGED <<call, matches, last_wins, variant, ret>>

\* the evaluation run: elo over matches[k:] from what the training run returned
RunTest ==
  /\ pc = "idle" /\ stage = "test"
  /\ EloEnter(SubSeq(matches, cut + 1, Len(matches)),
              [player_abs |-> ret["train"].player_abs,
               games_played |-> ret["train"].games_played,
               player_trend |-> ret["train"].player_trend,
               at_abilities |-> ret["train"].at_abilities])
  /\ UNCHANGED <<call, matches, last_wins, stage, cut, variant, ret>>

Next == RunWhole \/ EloBatch \/ EloReturn \/ RunTrain \/ RunTest

Spec == Init /\ [][Next]_vars

\* ---------------------------------------------------- one run of elo
\* one run of elo over the whole list and nothing after it
NextRun == RunWhole \/ EloBatch \/ EloReturn

\* Python runs the call, each iteration of the for loop and the return one
\* after the other: a step that can be taken is taken
SpecLive ==
  Init /\ [][NextRun]_vars
    /\ WF_vars(RunWhole) /\ WF_vars(EloBatch) /\ WF_vars(EloReturn)

\* ------------------------------------------- a second run on other data
\* the rows a and b are the same match but for its score
SameButScore(a, b) ==
  /\ a.date = b.date /\ a.w_id = b.w_id /\ a.l_id = b.l_id
  /\ a.one_hot = b.one_hot /\ a.itf = b.itf

\* in how many of date, winner, loser, surface, tier and score a and b differ
Differences(a, b) ==
  (IF a.date # b.date THEN 1 ELSE 0) + (IF a.w_id # b.w_id THEN 1 ELSE 0)
    + (IF a.l_id # b.l_id THEN 1 ELSE 0) + (IF a.one_hot # b.one_hot THEN 1 ELSE 0)
    + (IF a.itf # b.itf THEN 1 ELSE 0)
    + (IF <<a.w_games, a.w_sets, a.l_games, a.l_sets>>
            # <<b.w_games, b.w_sets, b.l_games, b.l_sets>> THEN 1 ELSE 0)

\* the lists a and b agree up to date d: the same rows before d, the same
\* players, surfaces and tiers on d, and anything after d
Agree(a, b, d) ==
  /\ \A i \in DOMAIN a : a[i].date <= d =>
        /\ i \in DOMAIN b
        /\ SameButScore(a[i], b[i])
        /\ a[i].date < d => a[i] = b[i]
  /\ \A i \in DOMAIN b : b[i].date <= d =>
        i \in DOMAIN a /\ a[i].date = b[i].date

\* the latest date up to which a and b agree (0: none)
AgreeDate(a, b) == MaxOf({d \in 0 .. MaxDate : Agree(a, b, d)})

\* the lists one step away from a: one row changed in one of date, winner,
\* loser, surface, tier and score, or the last row dropped.  Lists that differ
\* in more are some steps apart.
Neighbours(a) ==
  UNION { { [a EXCEPT ![i] = r] : r \in { x \in Matches : Differences(a[i], x) = 1 } } :
          i \in DOMAIN a }
    \cup (IF a = <<>> THEN {} ELSE {SubSeq(a, 1, Len(a) - 1)})

\* a second run of elo from the initial arrays, over a list that agrees with
\* matches up to some date
RunVariant ==
  /\ pc = "idle" /\ stage = "split"
  /\ \E v \in Neighbours(matches) :
       /\ AgreeDate(matches, v) >= 1
       /\ variant' = [d |-> AgreeDate(matches, v), data |-> v]
       /\ EloEnter(v, InitRefs)
  /\ stage' = "variant"
  /\ UNCHANGED <<call, matches, last_wins, cut, ret>>

NextCausal == RunWhole \/ EloBatch \/ EloReturn \/ RunVariant

SpecCausal == Init /\ [][NextCausal]_vars

\* ------------------------------------- a second run on reordered rows
\* the list a with its rows in the order f: row i of the result is a[f[i]]
Reordered(a, f) == [i \in DOMAIN a |-> a[f[i]]]

\* a second run of elo from the initial arrays, over the same rows in another
\* order; the rows of a date stay rows of that date
RunPermuted ==
  /\ pc = "idle" /\ stage = "split"
  /\ \E f \in Permutations(DOMAIN matches) :
       /\ variant' = [d |-> 0, data |-> Reordered(matches, f), perm |-> f]
       /\ EloEnter(Reordered(matches, f), InitRefs)
  /\ stage' = "variant"
  /\ UNCHANGED <<call, matches, last_wins, cut, ret>>

NextPerm == RunWhole \/ EloBatch \/ EloReturn \/ RunPermuted

SpecPerm == Init /\ [][NextPerm]_vars

\* ------------------------------------------- ids beyond the known range
\* elo takes the ids as they are in the data: here they may be any integer
\* from one below -NumPlayers to NumPlayers, on a list of at most MaxMatches
\* top tier 6-2 6-2 matches on the first surface
AnyIds == (-NumPlayers - 1) .. NumPlayers

AnyIdRows ==
  { [date |-> d, w_id |-> w, l_id |-> l, one_hot |-> [c \in Surfaces |-> IF c = 1 THEN 1 ELSE 0],
     itf |-> FALSE, w_games |-> 12, w_sets |-> 2, l_games |-> 4, l_sets |-> 0] :
      d \in Dates, w \in AnyIds, l \in AnyIds }

AnyIdMatches == { r \in AnyIdRows : r.w_id # r.l_id }

RECURSIVE AnyIdLists(_)
AnyIdLists(n) ==
  IF n = 0 THEN {<<>>}
  ELSE LET shorter == AnyIdLists(n - 1)
       IN  shorter \cup
           { Append(l, r) : l \in { x \in shorter : Len(x) = n - 1 },
                            r \in AnyIdMatches }

InitIds ==
  /\ matches \in AnyIdLists(MaxMatches)
  /\ last_wins \in BOOLEAN
  /\ heap = InitHeap
  /\ stage = "whole"
  /\ cut = 0
  /\ variant = [d |-> 0, data |-> <<>>]
  /\ ret = <<>>
  /\ pc = "idle"
  /\ data = <<>>
  /\ args = InitRefs
  /\ player_abs = 0 /\ games_played = 0 /\ player_trend = 0 /\ at_abilities = 0
  /\ groups = <<>>
  /\ overall_probs = <<>>
  /\ round = NoRound
  /\ before = Arrays(InitHeap, InitRefs)
  /\ call = NoCall

SpecIds == InitIds /\ [][NextRun]_vars

\* -------------------------------------------------------- data cleaning
\* a missing value of a series (np.NaN, pd.NaT)
NaN == "NaN"

\* how often x is in the series s
Count(s, x) == Cardinality({i \in DOMAIN s : s[i] = x})

\* surfaces.value_counts().index[0]: a label that is not missing and no less
\* frequent than any other; equally frequent labels come in no stated order.
\* The empty set stands for the IndexError of index[0] on an empty index.
value_counts_first(surfaces) ==
  LET labels == Range(surfaces) \ {NaN}
  IN  {x \in labels : \A y \in labels : Count(surfaces, y) <= Count(surfaces, x)}

\* np.unique(list(surface_map.values())): the categories, sorted
surface_categories == <<"Clay", "Grass", "Hard">>

\* surfaces.map(surface_map): a label that is no key of the map becomes NaN
map_surface(surface_map, x) ==
  IF x \in DOMAIN surface_map THEN surface_map[x] ELSE NaN

\* pd.get_dummies(pd.Categorical(surfaces, categories)): one column per
\* category, a value that is no category gives a row of zeros
get_dummies(surfaces, categories) ==
  [i \in DOMAIN surfaces |->
     [c \in DOMAIN categories |-> IF surfaces[i] = categories[c] THEN 1 ELSE 0]]

\* surface_to_one_hot of data_ingestion/data_cleaning.py, given the label
\* top that value_counts put first
surface_to_one_hot(surfaces, surface_map, top) ==
  LET filled == [i \in DOMAIN surfaces |->
                   IF surfaces[i] = NaN THEN top ELSE surfaces[i]]
      mapped == [i \in DOMAIN surfaces |-> map_surface(surface_map, filled[i])]
  IN  [categories |-> surface_categories,
       one_hot |-> get_dummies(mapped, surface_categories)]

\* surface_to_one_hot of data_cleaning.py, the one pipeline.run imports:
\* missing labels are not replaced
data_cleaning_surface_to_one_hot(surfaces, surface_map) ==
  LET mapped == [i \in DOMAIN surfaces |-> map_surface(surface_map, surfaces[i])]
  IN  [categories |-> surface_categories,
       one_hot |-> get_dummies(mapped, surface_categories)]

\* ---- score_to_int: strings are sequences of characters
\* the numeric NaN of a float array (no score is negative)
nan == -1
\* a missing string of a series (np.NaN, None)
Missing == <<NaN>>

Digits == <<"0", "1", "2", "3", "4", "5", "6", "7", "8", "9">>
IsDigit(c) == \E d \in DOMAIN Digits : Digits[d] = c
DigitValue(c) == (CHOOSE d \in DOMAIN Digits : Digits[d] = c) - 1

\* the first position of character c in s
IndexOf(s, c) == MinOf({j \in DOMAIN s : s[j] = c})

\* str.replace(r'\([^)]*\)', ''): every bracket with its content, up to the
\* first closing bracket, is taken out; an opening bracket never closed stays
RECURSIVE remove_brackets(_)
remove_brackets(s) ==
  IF s = <<>> THEN <<>>
  ELSE IF Head(s) = "(" /\ \E j \in DOMAIN s : s[j] = ")"
       THEN remove_brackets(SubSeq(s, IndexOf(s, ")") + 1, Len(s)))
       ELSE <<Head(s)>> \o remove_brackets(Tail(s))

\* str.strip()
RECURSIVE strip(_)
strip(s) ==
  IF s = <<>> THEN s
  ELSE IF Head(s) = " " THEN strip(Tail(s))
  ELSE IF s[Len(s)] = " " THEN strip(SubSeq(s, 1, Len(s) - 1))
  ELSE s

\* str.split(sep): the pieces between the separators, empty pieces included
RECURSIVE split(_, _)
split(s, sep) ==
  IF \A j \in DOMAIN s : s[j] # sep THEN <<s>>
  ELSE <<SubSeq(s, 1, IndexOf(s, sep) - 1)>>
         \o split(SubSeq(s, IndexOf(s, sep) + 1, Len(s)), sep)

\* pd.to_numeric(errors='coerce') on a piece: its value if it is a number
\* (here: digits only), NaN otherwise and for a missing piece
RECURSIVE to_numeric(_)
to_numeric(t) ==
  IF t = <<>> \/ \E j \in DOMAIN t : ~IsDigit(t[j]) THEN nan
  ELSE IF Len(t) = 1 THEN DigitValue(t[1])
  ELSE 10 * to_numeric(SubSeq(t, 1, Len(t) - 1)) + DigitValue(t[Len(t)])

\* set_df: the scores without brackets, stripped and split at the spaces;
\* a missing score has no piece
set_df(score) ==
  [r \in DOMAIN score |->
     IF score[r] = Missing THEN <<>>
     ELSE split(strip(remove_brackets(score[r])), " ")]

\* set_games of column i of set_df: each piece split at '-' and made numeric,
\* as wide as the row with the most pieces
set_games(df, i) ==
  LET parts == [r \in DOMAIN df |->
                  IF i <= Len(df[r]) THEN split(df[r][i], "-") ELSE <<>>]
      width == MaxOf({Len(parts[r]) : r \in DOMAIN df})
  IN  [r \in DOMAIN df |->
         [k \in 1 .. width |->
            IF k <= Len(parts[r]) THEN to_numeric(parts[r][k]) ELSE nan]]

\* the number of columns of set_df
NumSetCols(df) == MaxOf({Len(df[r]) : r \in DOMAIN df})

\* game_scores[:, i:i+2] = set_games fails (ValueError) when set_games does
\* not fit the slice: the slice has two columns for the first three sets and
\* none beyond, a single column of set_games fits both
AssignFails(df) ==
  \E i \in 1 .. NumSetCols(df) :
    LET width == Len(set_games(df, i)[1])
    IN  IF i <= 3 THEN width > 2 ELSE width > 1

\* game_scores after the loop: six columns, winner and loser games of three
\* sets, 0 where no column of set_df was written
game_scores(df) ==
  [r \in DOMAIN df |->
     [c \in 1 .. 6 |->
        LET i == (c + 1) \div 2
            g == set_games(df, i)[r]
        IN  IF i > NumSetCols(df) THEN 0
            ELSE IF Len(g) = 1 THEN g[1]
            ELSE g[2 - (c % 2)]]]

\* np.nansum of a row over the columns cols
nansum(row, cols) ==
  SumTo([j \in 1 .. Len(cols) |-> IF row[cols[j]] = nan THEN 0 ELSE row[cols[j]]],
        Len(cols))

\* np.sum of a row over the columns cols: NaN if any entry is
npsum(row, cols) ==
  IF \E j \in DOMAIN cols : row[cols[j]] = nan THEN nan
  ELSE SumTo([j \in 1 .. Len(cols) |-> row[cols[j]]], Len(cols))

\* in how many of the sets at columns w_cols, l_cols a is greater than b;
\* a comparison with NaN is false
SetsWon(row, a_cols, b_cols) ==
  Cardinality({j \in DOMAIN a_cols :
     row[a_cols[j]] # nan /\ row[b_cols[j]] # nan /\ row[a_cols[j]] > row[b_cols[j]]})

\* score_to_int of data_ingestion/data_cleaning.py
score_to_int(score) ==
  LET gs == game_scores(set_df(score))
      w_set_cols == <<1, 3, 5>>
      l_set_cols == <<2, 4, 6>>
  IN  [r \in DOMAIN score |->
         LET w_games == nansum(gs[r], w_set_cols)
             l_games == nansum(gs[r], l_set_cols)
             w_sets == SetsWon(gs[r], w_set_cols, l_set_cols)
             l_sets == SetsWon(gs[r], l_set_cols, w_set_cols)
         IN  IF w_games < 12 \/ w_sets < 2 THEN <<nan, nan, nan, nan>>
             ELSE <<w_games, w_sets, l_games, l_sets>>]

\* score_to_int of data_cleaning.py, the one pipeline.run imports: the set
\* columns are range(0, 4, 2) and range(1, 5, 2), the first two sets
data_cleaning_score_to_int(score) ==
  LET gs0 == game_scores(set_df(score))
      w_set_cols == <<1, 3>>
      l_set_cols == <<2, 4>>
      gs == [r \in DOMAIN score |->
               IF npsum(gs0[r], w_set_cols) # nan /\ npsum(gs0[r], w_set_cols) >= 12
               THEN gs0[r] ELSE [c \in 1 .. 6 |-> nan]]
  IN  [r \in DOMAIN score |->
         LET won == SetsWon(gs[r], w_set_cols, l_set_cols)
             w_sets == IF won < 2 THEN nan ELSE won
         IN  <<npsum(gs[r], w_set_cols), w_sets, npsum(gs[r], l_set_cols),
               IF w_sets = nan THEN nan ELSE 2 - w_sets>>]

\* ---- get_inferred_date
\* pd.Categorical(..., categories=round_order, ordered=True): the place of a
\* round in the hierarchy
r_order(rnd, round_order) ==
  CHOOSE k \in DOMAIN round_order : round_order[k] = rnd

\* data.sort_values(by=[t_date_col, 'r_order']): the row labels from low to
\* high start date, then round; rows equal in both keep their order
sort_values(df, round_order) ==
  LET key(i) == <<df[i].tourney_date, r_order(df[i].round, round_order)>>
      Before(i, j) ==
        \/ key(i)[1] < key(j)[1]
        \/ key(i)[1] = key(j)[1] /\ key(i)[2] < key(j)[2]
        \/ key(i) = key(j) /\ i < j
  IN  [k \in DOMAIN df |->
         CHOOSE i \in DOMAIN df :
           Cardinality({j \in DOMAIN df : Before(j, i)}) = k - 1]

\* the tournaments of the data: start date and name
Tournaments(df) ==
  {<<df[i].tourney_date, df[i].tourney_name>> : i \in DOMAIN df}

\* the groups taken by start date alone, whatever the name
round_order_df_by_date(df, sorted) ==
  [t \in Tournaments(df) |->
     LET InGroup(row) == row.tourney_date = t[1]
         rows == SelectSeq([k \in DOMAIN sorted |-> df[sorted[k]]], InGroup)
     IN  unique([k \in DOMAIN rows |-> rows[k].round])]

\* data.groupby([t_date_col, t_name_col])['r_order'].unique(): for every
\* tournament its distinct rounds, in the order of the sorted rows
round_order_df(df, sorted) ==
  [t \in Tournaments(df) |->
     LET InGroup(row) == row.tourney_date = t[1] /\ row.tourney_name = t[2]
         rows == SelectSeq([k \in DOMAIN sorted |-> df[sorted[k]]], InGroup)
     IN  unique([k \in DOMAIN rows |-> rows[k].round])]

\* np.where(rounds.reshape(-1, 1) == data_rounds)[1]: row after row of the
\* sorted data, the (zero based) columns of data_rounds that hold the round of
\* the row
RECURSIVE np_where(_, _, _)
np_where(rounds, data_rounds, n) ==
  IF n = 0 THEN <<>>
  ELSE np_where(rounds, data_rounds, n - 1)
         \o SortedSeq({c - 1 : c \in {x \in DOMAIN data_rounds[n] :
                                        data_rounds[n][x] = rounds[n]}})

\* get_inferred_date: the series of the sorted rows, each with its row label
\* (index) and its start date plus round_val days; dates are day numbers
get_inferred_date(df, round_order) ==
  LET sorted == sort_values(df, round_order)
      rounds_of == round_order_df(df, sorted)
      data_rounds == [k \in DOMAIN sorted |->
                        rounds_of[<<df[sorted[k]].tourney_date,
                                    df[sorted[k]].tourney_name>>]]
      round_val == np_where([k \in DOMAIN sorted |-> df[sorted[k]].round],
                            data_rounds, Len(sorted))
  IN  IF Len(round_val) # Len(df) THEN [error |-> "ValueError"]
      ELSE [series |-> [k \in DOMAIN sorted |->
                          [index |-> sorted[k],
                           date |-> df[sorted[k]].tourney_date + round_val[k]]]]

\* ----------------------------------------- functions called on their own
\* the variables of the caller and of elo, which a call of a function on its
\* own leaves alone
elo_vars == <<matches, last_wins, heap, stage, cut, variant, ret, pc, data, args,
              player_abs, games_played, player_trend, at_abilities, groups,
              overall_probs, round, before>>

InitPure ==
  /\ matches = <<>>
  /\ last_wins = FALSE
  /\ heap = InitHeap
  /\ stage = "pure"
  /\ cut = 0
  /\ variant = [d |-> 0, data |-> <<>>]
  /\ ret = <<>>
  /\ pc = "idle"
  /\ data = <<>>
  /\ args = InitRefs
  /\ player_abs = 0 /\ games_played = 0 /\ player_trend = 0 /\ at_abilities = 0
  /\ groups = <<>>
  /\ overall_probs = <<>>
  /\ round = NoRound
  /\ before = Arrays(InitHeap, InitRefs)
  /\ call = NoCall

\* the sequences of 1 .. n elements of S
RECURSIVE SeqsUpTo(_, _)
SeqsUpTo(S, n) ==
  IF n = 0 THEN {}
  ELSE IF n = 1 THEN {<<x>> : x \in S}
  ELSE LET shorter == SeqsUpTo(S, n - 1)
       IN  shorter \cup
           { Append(l, x) : l \in { y \in shorter : Len(y) = n - 1 }, x \in S }

\* surface weights in thousandths: none, the test's, the configured one, a
\* half and all of the weight
SurfaceWeights == {0, 120, PARAMS.surface_weight, 500, 1000}

\* get_surface_weights on a batch of one hot rows
CallGetSurfaceWeights ==
  /\ call = NoCall
  /\ \E rows \in SeqsUpTo(OneHots, MaxMatches), sw \in SurfaceWeights :
       call' = [fn |-> "get_surface_weights",
                in |-> [one_hot_surface |-> rows, surface_weight |-> sw],
                out |-> get_surface_weights_2d(rows, sw)]
  /\ UNCHANGED elo_vars

\* the labels of a raw surface column: the keys of the map, a label that is
\* no key, and a missing value
SurfaceLabels == DOMAIN SURFACE_MAP \cup {"Other", NaN}

SurfaceSeries == {<<>>} \cup SeqsUpTo(SurfaceLabels, MaxLabels)

\* surface_to_one_hot (data_ingestion) on a series of labels
CallSurfaceToOneHot ==
  /\ call = NoCall
  /\ \E surfaces \in SurfaceSeries :
       IF value_counts_first(surfaces) = {}
       THEN call' = [fn |-> "surface_to_one_hot", in |-> [surfaces |-> surfaces],
                     out |-> [error |-> "IndexError"]]
       ELSE \E top \in value_counts_first(surfaces) :
              call' = [fn |-> "surface_to_one_hot", in |-> [surfaces |-> surfaces],
                       out |-> surface_to_one_hot(surfaces, SURFACE_MAP, top)]
  /\ UNCHANGED elo_vars

\* surface_to_one_hot (data_cleaning) on a series of labels
CallDataCleaningSurfaceToOneHot ==
  /\ call = NoCall
  /\ \E surfaces \in SurfaceSeries :
       call' = [fn |-> "data_cleaning.surface_to_one_hot",
                in |-> [surfaces |-> surfaces],
                out |-> data_cleaning_surface_to_one_hot(surfaces, SURFACE_MAP)]
  /\ UNCHANGED elo_vars

\* the pieces a score is written from: the sets 6-0, 0-6, 6-5, 7-6 with its
\* tiebreak in brackets, and the retirement token
ScorePieces ==
  { [kind |-> "set", w |-> 6, l |-> 0, tiebreak |-> FALSE],
    [kind |-> "set", w |-> 0, l |-> 6, tiebreak |-> FALSE],
    [kind |-> "set", w |-> 6, l |-> 5, tiebreak |-> FALSE],
    [kind |-> "set", w |-> 7, l |-> 6, tiebreak |-> TRUE],
    [kind |-> "RET", w |-> 0, l |-> 0, tiebreak |-> FALSE] }

\* a missing score, as a list of pieces
NoScore == <<[kind |-> "missing", w |-> 0, l |-> 0, tiebreak |-> FALSE]>>

\* a piece as it is written in the data
PieceString(x) ==
  IF x.kind = "RET" THEN <<"R", "E", "T">>
  ELSE <<Digits[x.w + 1], "-", Digits[x.l + 1]>>
         \o (IF x.tiebreak THEN <<"(", "7", ")">> ELSE <<>>)

\* the score string of a list of pieces: the pieces with a space between
RECURSIVE ScoreString(_)
ScoreString(pieces) ==
  IF pieces = NoScore THEN Missing
  ELSE IF Len(pieces) = 1 THEN PieceString(pieces[1])
  ELSE ScoreString(SubSeq(pieces, 1, Len(pieces) - 1))
         \o <<" ">> \o PieceString(pieces[Len(pieces)])

\* the series of scores: one score, or one score and a second row that is
\* missing or 6-0 0-6 6-0
ScoreSeries ==
  LET one == SeqsUpTo(ScorePieces, MaxSets)
      three == << [kind |-> "set", w |-> 6, l |-> 0, tiebreak |-> FALSE],
                  [kind |-> "set", w |-> 0, l |-> 6, tiebreak |-> FALSE],
                  [kind |-> "set", w |-> 6, l |-> 0, tiebreak |-> FALSE] >>
  IN  {<<x>> : x \in one} \cup {<<x, y>> : x \in one, y \in {NoScore, three}}

\* score_to_int (data_ingestion) on a series of scores
CallScoreToInt ==
  /\ call = NoCall
  /\ \E pieces \in ScoreSeries :
       LET score == [r \in DOMAIN pieces |-> ScoreString(pieces[r])]
       IN  call' = [fn |-> "score_to_int",
                    in |-> [score |-> score, pieces |-> pieces],
                    out |-> IF AssignFails(set_df(score))
                            THEN [error |-> "ValueError"]
                            ELSE [score_matrix |-> score_to_int(score)]]
  /\ UNCHANGED elo_vars

\* score_to_int (data_cleaning) on a series of scores
CallDataCleaningScoreToInt ==
  /\ call = NoCall
  /\ \E pieces \in ScoreSeries :
       LET score == [r \in DOMAIN pieces |-> ScoreString(pieces[r])]
       IN  call' = [fn |-> "data_cleaning.score_to_int",
                    in |-> [score |-> score, pieces |-> pieces],
                    out |-> IF AssignFails(set_df(score))
                            THEN [error |-> "ValueError"]
                            ELSE [score_matrix |-> data_cleaning_score_to_int(score)]]
  /\ UNCHANGED elo_vars

\* the rows of a tournament table: three tournaments, of which two start on
\* the same day and two have the same name, and five of the rounds
TournamentRows ==
  { [tourney_date |-> t[1], tourney_name |-> t[2], round |-> r] :
      t \in {<<1, "Test1">>, <<1, "Test2">>, <<3, "Test1">>},
      r \in {"RR", "R16", "QF", "SF", "F"} }

\* get_inferred_date on a table of rows
CallGetInferredDate ==
  /\ call = NoCall
  /\ \E df \in SeqsUpTo(TournamentRows, MaxRows) :
       call' = [fn |-> "get_inferred_date", in |-> [data |-> df],
                out |-> get_inferred_date(df, ROUND_ORDER)]
  /\ UNCHANGED elo_vars

\* the values of games_played + offset the table PowShape reaches
GamesPlayed == 0 .. (Len(PowShape) - PARAMS.offset)

\* get_k_factor on two rows, each with its games played and its tier, for
\* the configured K and deduction and for those of the test (250, 0.2)
CallGetKFactor ==
  /\ call = NoCall
  /\ \E g \in [1 .. 2 -> GamesPlayed], itf \in [1 .. 2 -> BOOLEAN],
        Kp \in {PARAMS.K, 250000}, ded \in {PARAMS.itf_deduction, 200} :
       call' = [fn |-> "get_k_factor",
                in |-> [games_played |-> g, ift_indicator |-> itf, K |-> Kp,
                        offset |-> PARAMS.offset, itf_deduction |-> ded],
                out |-> [r \in 1 .. 2 |->
                           get_k_factor(g[r], Kp, PARAMS.offset, itf[r], ded)]]
  /\ UNCHANGED elo_vars

\* the games of a score and the per-game probability p the table binom_cdf
\* holds
GameScores ==
  { [g_won |-> 12, g_lost |-> 4, p |-> 530], [g_won |-> 13, g_lost |-> 10, p |-> 530],
    [g_won |-> 12, g_lost |-> 10, p |-> 500], [g_won |-> 12, g_lost |-> 2, p |-> 550] }

\* prior probabilities of the winner, in thousandths
PriorProbs == {0, 200, 500, 600, 700, 1000}

\* sets won and lost: best of three, best of five, and the -1 of the test
SetCounts == -1 .. 3

\* get_performance_score on one match, for no boost, the configured boost
\* and that of the test (0.1)
CallGetPerformanceScore ==
  /\ call = NoCall
  /\ \E probs \in PriorProbs, g \in GameScores, s_won \in SetCounts,
        s_lost \in SetCounts, s_boost \in {0, PARAMS.straight_sets_boost, 100} :
       call' = [fn |-> "get_performance_score",
                in |-> [probs |-> probs, g_won |-> g.g_won, g_lost |-> g.g_lost,
                        s_won |-> s_won, s_lost |-> s_lost, p |-> g.p,
                        s_boost |-> s_boost],
                out |-> get_performance_score(probs, g.g_won, g.g_lost, s_won,
                                              s_lost, g.p, s_boost)]
  /\ UNCHANGED elo_vars

NextPure ==
  \/ CallGetInferredDate
  \/ CallGetPerformanceScore
  \/ CallGetKFactor
  \/ CallGetSurfaceWeights
  \/ CallSurfaceToOneHot
  \/ CallDataCleaningSurfaceToOneHot
  \/ CallScoreToInt
  \/ CallDataCleaningScoreToInt

SpecPure == InitPure /\ [][NextPure]_vars

\* ================================================================ claims
\* the arrays a finished call returned, by content
Returned(s) == Arrays(heap, ret[s])

\* C1: chronological associativity.  For a date-sorted list split on a date
\* boundary, the training run on matches[0:k] from the initial arrays followed
\* by the evaluation run on matches[k:] from what the training run returned
\* ends with the same four arrays as the single run over all matches, and the
\* probabilities of the two slices, one after the other, are those of the
\* single run.
C1_ChronologicalAssociativity ==
  stage = "done" /\ "test" \in DOMAIN ret =>
    /\ Returned("test") = Returned("whole")
    /\ ret["train"].overall_probs \o ret["test"].overall_probs
         = ret["whole"].overall_probs

\* a finished split with one match on each side, the loser of the first
\* being the winner of the second
C1_Witness ==
  /\ stage = "done" /\ "test" \in DOMAIN ret
  /\ Len(matches) = 2 /\ cut = 1
  /\ matches[2].w_id = matches[1].l_id

\* C2: elo never writes the arrays it was called with.  No step of a call
\* changes the content of an argument array, the arrays elo works on and
\* returns are other objects than its arguments, and the caller's initial
\* arrays keep their initial values whatever is run.
C2_ArgsUnchangedByStep ==
  \A f \in DOMAIN args' : heap'[args'[f]] = heap[args'[f]]

C2_CallerArraysNeverMutated ==
  /\ [][C2_ArgsUnchangedByStep]_vars
  /\ [](pc = "loop" =>
          {player_abs, games_played, player_trend, at_abilities}
            \cap {args[f] : f \in DOMAIN args} = {})
  /\ [](Arrays(heap, InitRefs) = Arrays(InitHeap, InitRefs))

\* the evaluation run, seeded with the arrays of the training run, has
\* processed a batch
C2_Witness ==
  /\ stage = "test" /\ pc = "loop" /\ round.date # 0
  /\ args.player_abs = ret["train"].player_abs
  /\ heap[player_abs] # heap[args.player_abs]

\* a batch has just been processed by elo_single_round
AfterBatch == pc = "loop" /\ round.date # 0

\* row j of the last batch, and what was computed for it
BatchRow(j) == data[round.index[j]]

\* the ability deltas of row j of the last batch
WinnerDelta(j) ==
  get_ability_change(round.loc[j].w_k_factor, round.loc[j].w_performance,
                     round.loc[j].playing_surface)
LoserDelta(j) ==
  get_ability_change(round.loc[j].l_k_factor, round.loc[j].l_performance,
                     round.loc[j].playing_surface)

\* C4: batch-simultaneous reads.  For every match of a batch the blended
\* abilities, the probability, the signed performances and both K-factors are
\* those computed from the four arrays as they were before any write of the
\* batch, also for a player who appears in two matches of the batch.
C4_BatchSimultaneousReads ==
  AfterBatch =>
    \A j \in DOMAIN round.loc :
      LET m == BatchRow(j)
          l == round.loc[j]
          sw == get_surface_weights(m.one_hot, PARAMS.surface_weight).s_weight
          wa == get_current_ability(before.player_abs[m.w_id], before.at_abilities[m.w_id],
                  sw, PARAMS.all_time_weight, before.player_trend[m.w_id],
                  PARAMS.trend_weight)
          la == get_current_ability(before.player_abs[m.l_id], before.at_abilities[m.l_id],
                  sw, PARAMS.all_time_weight, before.player_trend[m.l_id],
                  PARAMS.trend_weight)
          pf == get_performance_score(get_probs(wa, la), m.w_games, m.l_games,
                  m.w_sets, m.l_sets, PARAMS.p, PARAMS.straight_sets_boost)
      IN  /\ l.w_ability = wa /\ l.l_ability = la
          /\ l.probs = get_probs(wa, la)
          /\ overall_probs[round.index[j]] = get_probs(wa, la)
          /\ l.w_performance = pf.w /\ l.l_performance = pf.l
          /\ \A c \in Columns :
               /\ l.w_k_factor[c] = get_k_factor(before.games_played[m.w_id][c],
                    PARAMS.K, PARAMS.offset, m.itf, PARAMS.itf_deduction)
               /\ l.l_k_factor[c] = get_k_factor(before.games_played[m.l_id][c],
                    PARAMS.K, PARAMS.offset, m.itf, PARAMS.itf_deduction)

\* a batch of two matches on one surface in which the winner of the first
\* match is the loser of the second
C4_Witness ==
  /\ AfterBatch /\ Len(round.index) = 2
  /\ round.loc[1].w_id = round.loc[2].l_id
  /\ round.loc[1].playing_surface = round.loc[2].playing_surface

\* C5 (as claimed): after a batch, every entry of current_ability is its
\* value before the batch plus the deltas of every match of the batch the
\* player took part in, also for a player who is twice winner or twice loser.
C5_AllDeltasAdditive ==
  AfterBatch =>
    \A p \in Players, c \in Columns :
      heap[player_abs][p][c] =
        before.player_abs[p][c]
          + SumTo([j \in DOMAIN round.loc |->
                     (IF round.loc[j].w_id = p THEN WinnerDelta(j)[c] ELSE 0)
                       + (IF round.loc[j].l_id = p THEN LoserDelta(j)[c] ELSE 0)],
                  Len(round.loc))

\* the matches of d in which p took part
MatchesOf(d, p) == {i \in DOMAIN d : d[i].w_id = p \/ d[i].l_id = p}

\* C6 (as claimed): from an all-zero games_played, after elo the base column
\* of a player counts the matches the player took part in and each surface
\* column those of them played on that surface, also for a player with more
\* than one match on one date.
C6_GamesPlayedCountsMatches ==
  (stage = "whole" /\ pc = "loop" /\ groups = <<>>) =>
    \A p \in Players :
      /\ heap[games_played][p][Base] = Cardinality(MatchesOf(data, p))
      /\ \A s \in Surfaces :
           heap[games_played][p][s] =
             Cardinality({i \in MatchesOf(data, p) : data[i].one_hot[s] = 1})

\* C7: after every batch (so in what elo returns) the all time best is at
\* least the current ability in every entry, also for players who are winner
\* and loser, or several times winner or loser, in one batch.
C7_AlltimeAtLeastCurrent ==
  pc = "loop" =>
    \A p \in Players, c \in Columns :
      heap[at_abilities][p][c] >= heap[player_abs][p][c]

\* a batch in which one player won one match and lost the other, and after
\* which some entry of the all time best is above the current ability
C7_Witness ==
  /\ AfterBatch /\ Len(round.index) = 2
  /\ round.loc[1].l_id = round.loc[2].w_id
  /\ \E p \in Players, c \in Columns : heap[at_abilities][p][c] > heap[player_abs][p][c]
  /\ \E p \in Players, c \in Columns : heap[at_abilities][p][c] > before.at_abilities[p][c]

\* C8: an update touches only the columns in play.  The playing-surface
\* indicator of a match is 1 on its active surface column and on the base
\* column and 0 elsewhere, the deltas of winner and loser are 0 in the other
\* surface columns, and a surface column that is not the active surface of any
\* of a player's matches in the batch keeps that player's current ability,
\* all time best and games played.
C8_OnlyColumnsInPlay ==
  AfterBatch =>
    /\ \A j \in DOMAIN round.loc :
         /\ \A c \in Surfaces :
              /\ round.loc[j].playing_surface[c] = BatchRow(j).one_hot[c]
              /\ BatchRow(j).one_hot[c] = 0 =>
                   WinnerDelta(j)[c] = 0 /\ LoserDelta(j)[c] = 0
         /\ round.loc[j].playing_surface[Base] = 1
    /\ \A p \in Players, c \in Surfaces :
         (\A j \in DOMAIN round.loc :
            p \in {round.loc[j].w_id, round.loc[j].l_id} => BatchRow(j).one_hot[c] = 0)
         => /\ heap[player_abs][p][c] = before.player_abs[p][c]
            /\ heap[at_abilities][p][c] = before.at_abilities[p][c]
            /\ heap[games_played][p][c] = before.games_played[p][c]

\* a match on the second surface has changed its winner's ability in that
\* column and in the base column, and in no other
C8_Witness ==
  /\ AfterBatch
  /\ \E j \in DOMAIN round.loc :
       LET p == round.loc[j].w_id
       IN  /\ BatchRow(j).one_hot[2] = 1
           /\ heap[player_abs][p][2] # before.player_abs[p][2]
           /\ heap[player_abs][p][Base] # before.player_abs[p][Base]
           /\ heap[player_abs][p][1] = before.player_abs[p][1]
           /\ heap[games_played][p][2] = before.games_played[p][2] + 1

\* the four arrays after every row of d dated k or earlier has been processed,
\* date by date, from the arrays start
RECURSIVE ArraysUpTo(_, _, _)
ArraysUpTo(d, k, start) ==
  IF k = 0 THEN start
  ELSE LET s == ArraysUpTo(d, k - 1, start)
           idx == SortedSeq({i \in DOMAIN d : d[i].date = k})
           r == elo_single_round(PARAMS, [j \in DOMAIN idx |-> d[idx[j]]],
                  s.player_abs, s.games_played, s.player_trend, s.at_abilities,
                  last_wins)
       IN  IF idx = <<>> THEN s
           ELSE [player_abs |-> r.player_abs, games_played |-> r.games_played,
                 player_trend |-> r.player_trend, at_abilities |-> r.at_abilities]

\* the win probability of row i of data: the one computed for its players
\* from the arrays as the matches of all earlier dates have left them
ProbabilityOfRow(i) ==
  LET s == ArraysUpTo(data, data[i].date - 1, Arrays(heap, args))
  IN  match_locals(PARAMS, data[i], s.player_abs, s.games_played, s.player_trend,
                   s.at_abilities).probs

\* the groups not processed yet that hold row i
PendingGroupsOf(i) == {g \in DOMAIN groups : i \in Range(groups[g].index)}

C10_EmptyRunReturnsState ==
  /\ ("whole" \in DOMAIN ret /\ matches = <<>>) =>
       /\ Returned("whole") = Arrays(heap, InitRefs)
       /\ ret["whole"].overall_probs = <<>>
  /\ ("train" \in DOMAIN ret /\ cut = 0) =>
       /\ Returned("train") = Arrays(heap, InitRefs)
       /\ ret["train"].overall_probs = <<>>
  /\ ("test" \in DOMAIN ret /\ cut = Len(matches)) =>
       /\ Returned("test") = Returned("train")
       /\ ret["test"].overall_probs = <<>>

\* an evaluation run over no match, after a training run over two matches
C10_Witness ==
  /\ "test" \in DOMAIN ret /\ cut = Len(matches) /\ Len(matches) = 2
  /\ Returned("test") # Arrays(heap, InitRefs)

\* C3: temporal causality.  For two runs from the same initial arrays over
\* lists that agree up to date d (same matches before d, same players,
\* surfaces and tiers on d, anything else on d's scores and after d), every
\* match dated d or earlier has the same probability in both runs.
C3_TemporalCausality ==
  "variant" \in DOMAIN ret =>
    \A i \in DOMAIN matches :
      matches[i].date <= variant.d =>
        ret["variant"].overall_probs[i] = ret["whole"].overall_probs[i]

\* two finished runs that differ in the score of the match of the first date,
\* and in the probability of the later match
C3_Witness ==
  /\ "variant" \in DOMAIN ret /\ variant.d = 1
  /\ Len(matches) = 2 /\ Len(variant.data) = 2
  /\ matches[1].date = 1 /\ matches[2].date = 2
  /\ variant.data[1] # matches[1]
  /\ ret["variant"].overall_probs[2] # ret["whole"].overall_probs[2]

\* C11 (as claimed): a batch with a winner or loser id outside 0 .. N-1,
\* negative ids included, makes elo abort: no batch with such an id is ever
\* written to the arrays, and no call on a list with such an id returns.
C11_OutOfRangeIdAborts ==
  /\ AfterBatch => \A j \in DOMAIN round.index : 
        {BatchRow(j).w_id, BatchRow(j).l_id} \subseteq Players
  /\ (pc = "idle" /\ ret # <<>>) => \A i \in DOMAIN matches :
        {matches[i].w_id, matches[i].l_id} \subseteq Players

\* C12: for every batch of one hot rows with one active surface each and every
\* surface weight, each row of the weights get_surface_weights returns sums to
\* 1, has the surface weight at the active surface, 1 - surface weight at the
\* base and 0 elsewhere, and it (with its indicator row) is what the function
\* returns for that row alone.
C12_SurfaceWeightRows ==
  call.fn = "get_surface_weights" =>
    \A i \in DOMAIN call.in.one_hot_surface :
      LET h == call.in.one_hot_surface[i]
          sw == call.in.surface_weight
          row == call.out.s_weight[i]
          alone == get_surface_weights(h, sw)
      IN  /\ SumTo(row, Base) = 1000
          /\ \A c \in Surfaces : row[c] = IF h[c] = 1 THEN sw ELSE 0
          /\ row[Base] = 1000 - sw
          /\ row = alone.s_weight
          /\ call.out.playing_surface[i] = alone.playing_surface

\* a batch of two rows on different surfaces with the configured weight
C12_Witness ==
  /\ call.fn = "get_surface_weights"
  /\ Len(call.in.one_hot_surface) = 2
  /\ call.in.one_hot_surface[1] # call.in.one_hot_surface[2]
  /\ call.in.surface_weight = PARAMS.surface_weight

\* the rows of the last batch in which p took part
BatchRowsOf(p) ==
  {j \in DOMAIN round.loc : round.loc[j].w_id = p \/ round.loc[j].l_id = p}

\* the winner's performance of row j of the last batch before the prior
\* probability is taken off: the binomial CDF value plus the boost
RawPerformance(j) ==
  binom_cdf(BatchRow(j).w_games, BatchRow(j).w_games + BatchRow(j).l_games, PARAMS.p)
    + (IF BatchRow(j).w_sets - BatchRow(j).l_sets = 2
       THEN PARAMS.straight_sets_boost ELSE 0)

C14_BatchOrderIndependent ==
  (stage = "done" /\ "variant" \in DOMAIN ret /\ "perm" \in DOMAIN variant) =>
    /\ Returned("variant") = Returned("whole")
    /\ \A i \in DOMAIN variant.data :
         ret["variant"].overall_probs[i] = ret["whole"].overall_probs[variant.perm[i]]

\* the column of category x
CategoryColumn(x) == CHOOSE c \in DOMAIN surface_categories : surface_categories[c] = x

\* the categories observed most often in a series of labels
MostFrequentCategories(surfaces) ==
  LET cats == [i \in DOMAIN surfaces |-> map_surface(SURFACE_MAP, surfaces[i])]
  IN  value_counts_first(cats)

\* C15 (as claimed): surface_to_one_hot returns for every label, known,
\* missing or unknown, a row with exactly one 1; a label of the map activates
\* the category it maps to, a missing or unknown label activates a most
\* frequent observed category.  (A series without any label that is not
\* missing is left aside: it has no most frequent category.)
C15_OneHotForEveryLabel ==
  (/\ call.fn \in {"surface_to_one_hot", "data_cleaning.surface_to_one_hot"}
   /\ "error" \notin DOMAIN call.out) =>
      \A i \in DOMAIN call.in.surfaces :
         LET x == call.in.surfaces[i]
             row == call.out.one_hot[i]
             most == MostFrequentCategories(call.in.surfaces)
         IN  /\ SumTo(row, NumSurfaces) = 1
             /\ x \in DOMAIN SURFACE_MAP => row[CategoryColumn(SURFACE_MAP[x])] = 1
             /\ (x \notin DOMAIN SURFACE_MAP /\ most # {}) =>
                   \E m \in most : row[CategoryColumn(m)] = 1

\* the sets among the pieces of a score
SetsOf(pieces) == {j \in DOMAIN pieces : pieces[j].kind = "set"}

\* what a score of at most three pieces is worth by the claim: nothing if it
\* is missing, has a retirement token, or gives the winner fewer than 12
\* games or fewer than 2 sets; the sums over all its sets otherwise
ExpectedScoreRow(pieces) ==
  LET w_games == SumTo([j \in DOMAIN pieces |-> pieces[j].w], Len(pieces))
      l_games == SumTo([j \in DOMAIN pieces |-> pieces[j].l], Len(pieces))
      w_sets == Cardinality({j \in SetsOf(pieces) : pieces[j].w > pieces[j].l})
      l_sets == Cardinality({j \in SetsOf(pieces) : pieces[j].w < pieces[j].l})
  IN  IF SetsOf(pieces) # DOMAIN pieces \/ w_games < 12 \/ w_sets < 2
      THEN <<nan, nan, nan, nan>>
      ELSE <<w_games, w_sets, l_games, l_sets>>

\* C16 (as claimed): score_to_int returns an all-NaN row for a score that is
\* missing, has a retirement token, or gives the winner fewer than 12 games
\* or 2 sets, and for every other score of up to three sets the winner's
\* games and sets and the loser's games and sets, tiebreaks ignored.
C16_OnlyCompleteScoresAccepted ==
  (/\ call.fn \in {"score_to_int", "data_cleaning.score_to_int"}
   /\ \A r \in DOMAIN call.in.pieces : Len(call.in.pieces[r]) <= 3) =>
     /\ "error" \notin DOMAIN call.out
     /\ \A r \in DOMAIN call.in.pieces :
          call.out.score_matrix[r] = ExpectedScoreRow(call.in.pieces[r])

\* the rounds before round r among those present in the tournament of row i
EarlierRounds(df, i) ==
  { r_order(df[j].round, ROUND_ORDER) : j \in
      { x \in DOMAIN df :
          /\ df[x].tourney_date = df[i].tourney_date
          /\ df[x].tourney_name = df[i].tourney_name
          /\ r_order(df[x].round, ROUND_ORDER) < r_order(df[i].round, ROUND_ORDER) } }

\* C17: for rounds of the hierarchy, get_inferred_date gives every row, under
\* its own row label, the start date of its tournament plus the number of
\* distinct earlier rounds present in that tournament (same start date and
\* name): one round one date, a later round a later date, no gaps for rounds
\* the tournament does not have.
C17_InferredDateIsRoundPosition ==
  call.fn = "get_inferred_date" =>
    /\ "error" \notin DOMAIN call.out
    /\ Len(call.out.series) = Len(call.in.data)
    /\ \A i \in DOMAIN call.in.data :
         \E k \in DOMAIN call.out.series :
           /\ call.out.series[k].index = i
           /\ call.out.series[k].date =
                call.in.data[i].tourney_date
                  + Cardinality(EarlierRounds(call.in.data, i))

\* a final one day after a quarter final (no semi final in the data), with
\* another tournament of the same start date in a round between the two
C17_Witness ==
  /\ call.fn = "get_inferred_date"
  /\ Len(call.in.data) = 3
  /\ call.in.data[1] = [tourney_date |-> 1, tourney_name |-> "Test1", round |-> "F"]
  /\ call.in.data[2] = [tourney_date |-> 1, tourney_name |-> "Test2", round |-> "SF"]
  /\ call.in.data[3] = [tourney_date |-> 1, tourney_name |-> "Test1", round |-> "QF"]
  /\ call.out.series[3] = [index |-> 1, date |-> 2]

\* C18: with K, offset, shape and deduction fixed, the K-factor of more games
\* played is strictly smaller at the same tier, and at equal games played the
\* K-factor of a lower tier (ITF) match is strictly smaller than that of a
\* top tier match.
C18_KFactorDecreasing ==
  call.fn = "get_k_factor" =>
    \A i, j \in DOMAIN call.out :
      /\ (/\ call.in.games_played[i] < call.in.games_played[j]
          /\ call.in.ift_indicator[i] = call.in.ift_indicator[j])
           => call.out[i] > call.out[j]
      /\ (/\ call.in.games_played[i] = call.in.games_played[j]
          /\ call.in.ift_indicator[i] /\ ~call.in.ift_indicator[j])
           => call.out[i] < call.out[j]

\* the configured parameters, a lower tier row and a top tier row at the
\* same number of games played
C18_Witness ==
  /\ call.fn = "get_k_factor"
  /\ call.in.K = PARAMS.K /\ call.in.itf_deduction = PARAMS.itf_deduction
  /\ call.in.games_played = <<10, 10>>
  /\ call.in.ift_indicator = <<TRUE, FALSE>>

\* the distinct dates of elo's data
DatesOf(d) == {d[i].date : i \in DOMAIN d}

\* a step of the for loop: one more call of elo_single_round
BatchStep == pc = "loop" /\ pc' = "loop" /\ groups' # groups

\* C19: elo's for loop takes the distinct dates of its data in strictly
\* ascending order, whatever the row order: every iteration is the batch of a
\* later date than the one before and holds all rows of that date and no
\* others; when the loop ends there have been as many batches as distinct
\* dates and every row has been in one; and every run that enters the loop
\* returns.
C19_DatesAscendingOnceEach ==
  /\ [][BatchStep =>
          /\ round'.date > round.date
          /\ round'.count = round.count + 1
          /\ Range(round'.index) = {i \in DOMAIN data : data[i].date = round'.date}]_vars
  /\ [](pc = "loop" =>
          /\ {groups[g].date : g \in DOMAIN groups}
               = {x \in DatesOf(data) : x > round.date}
          /\ round.count = Cardinality({x \in DatesOf(data) : x <= round.date}))
  /\ []((pc = "loop" /\ groups = <<>>) => round.count = Cardinality(DatesOf(data)))
  /\ (pc = "loop" ~> (pc = "idle" /\ "whole" \in DOMAIN ret))

\* a run over two rows of two dates, the later date first, at the end of its
\* second batch
C19_Witness ==
  /\ pc = "loop" /\ groups = <<>>
  /\ Len(data) = 2 /\ data[1].date > data[2].date
  /\ round.count = 2

\* the trends one EWMA step from the pre-batch trend of p can lead to: one
\* for each match of p in the last batch, with p's performance in that match
OneStepTrends(p) ==
  { get_updated_trend(before.player_trend[p],
                      IF round.loc[j].w_id = p THEN round.loc[j].w_performance
                      ELSE round.loc[j].l_performance,
                      PARAMS.trend_rate) : j \in BatchRowsOf(p) }

\* C20 (as claimed): after a batch the trend of every player of the batch is
\* one EWMA step away from the player's pre-batch trend, with the performance
\* of one of the player's matches, also for a player who wins one match of
\* the batch and loses another.
C20_TrendOneStepFromSnapshot ==
  AfterBatch =>
    \A p \in Players :
      BatchRowsOf(p) # {} => heap[player_trend][p] \in OneStepTrends(p)

BatchPlayers == UNION {{round.loc[j].w_id, round.loc[j].l_id} : j \in DOMAIN round.loc}

\* the shape of a two-dimensional array: its rows and the columns of each
Shape(a) == [rows |-> DOMAIN a, cols |-> [q \in DOMAIN a |-> DOMAIN a[q]]]

\* C22: a batch leaves every player who is neither winner nor loser of any of
\* its matches unchanged: that player's rows of the abilities, the all time
\* best, the trend and the games played after elo_single_round are the rows
\* before it; and during a run the four arrays keep the shapes of the arrays
\* elo was called with.
C22_OtherPlayersUnchanged ==
  /\ AfterBatch =>
       \A q \in Players \ BatchPlayers :
         /\ heap[player_abs][q] = before.player_abs[q]
         /\ heap[at_abilities][q] = before.at_abilities[q]
         /\ heap[player_trend][q] = before.player_trend[q]
         /\ heap[games_played][q] = before.games_played[q]
  /\ pc = "loop" =>
       /\ Shape(heap[player_abs]) = Shape(Arrays(heap, args).player_abs)
       /\ Shape(heap[at_abilities]) = Shape(Arrays(heap, args).at_abilities)
       /\ Shape(heap[games_played]) = Shape(Arrays(heap, args).games_played)
       /\ DOMAIN heap[player_trend] = DOMAIN Arrays(heap, args).player_trend
       /\ Shape(heap[player_abs]) = [rows |-> Players, cols |-> [q \in Players |-> Columns]]

\* a batch of one match between players 0 and 1 has changed their rows, and
\* player 2, who did not play, is in the arrays
C22_Witness ==
  /\ AfterBatch
  /\ BatchPlayers = {0, 1}
  /\ 2 \in Players
  /\ heap[player_abs][0] # before.player_abs[0]
  /\ heap[games_played][1] # before.games_played[1]
  /\ heap[player_trend][1] # before.player_trend[1]
  /\ heap[games_played][2] = before.games_played[2]

\* C23: from an all-zero games_played, with one active surface in every match
\* and a surface weight strictly between 0 and 1, after any sequence of
\* batches the base column of every player is the sum of that player's
\* surface columns, every entry is a non-negative integer, and no entry is
\* lower after a batch than it was before it.
C23_BaseIsSumOfSurfaces ==
  /\ pc = "loop" =>
       \A q \in Players :
         /\ heap[games_played][q][Base] = SumTo(heap[games_played][q], NumSurfaces)
         /\ \A c \in Columns : heap[games_played][q][c] \in Nat
  /\ AfterBatch =>
       \A q \in Players, c \in Columns :
         heap[games_played][q][c] >= before.games_played[q][c]

\* the configured surface weight is strictly between 0 and 1, and a player
\* has been counted in two batches on two different surfaces
C23_Witness ==
  /\ 0 < PARAMS.surface_weight /\ PARAMS.surface_weight < 1000
  /\ AfterBatch
  /\ \E q \in Players :
       /\ before.games_played[q] = [c \in Columns |-> IF c \in {1, Base} THEN 1 ELSE 0]
       /\ heap[games_played][q] = [c \in Columns |-> IF c = Base THEN 2
                                                      ELSE IF c \in {1, 2} THEN 1 ELSE 0]

\* the current abilities as each batch of this call of elo so far has left
\* them: the dates of data up to the date of the last batch
SeenAbilities ==
  { ArraysUpTo(data, k, Arrays(heap, args)).player_abs :
      k \in {d \in DatesOf(data) : d <= round.date} }

\* C24: the all time best never decreases.  For every player and column its
\* value after a batch is at least its value before the batch, and it is the
\* maximum of its value at the start of the run and of the values the current
\* ability had in that entry after each batch of the run so far.
C24_AlltimeBestIsRunningMaximum ==
  AfterBatch =>
    \A q \in Players, c \in Columns :
      /\ heap[at_abilities][q][c] >= before.at_abilities[q][c]
      /\ heap[at_abilities][q][c] =
           MaxOf({Arrays(heap, args).at_abilities[q][c]}
                   \cup {seen[q][c] : seen \in SeenAbilities})

\* after the second batch of a run a player's all time best is the ability
\* the first batch left: above the value at the start of the run and above
\* the current ability, which the second batch has lowered
C24_Witness ==
  /\ AfterBatch /\ round.count = 2
  /\ heap[player_abs] \in SeenAbilities
  /\ \E q \in Players, c \in Columns :
       /\ heap[at_abilities][q][c] > Arrays(heap, args).at_abilities[q][c]
       /\ heap[at_abilities][q][c] > heap[player_abs][q][c]
       /\ heap[player_abs][q][c] < before.player_abs[q][c]
       /\ heap[at_abilities][q][c] = before.player_abs[q][c]
====
